---- MODULE Spec2Model ----
(***************************************************************************)
(* MeshtasticInterface: framing, fragmentation, reassembly and connection  *)
(* lifecycle of the Reticulum <-> Meshtastic TCP bridge interface.         *)
(***************************************************************************)
EXTENDS Integers, Sequences, FiniteSets, TLC

VARIABLES
    recvbuf,     \* self._recvbuf: raw bytes not yet consumed by the decoder
    partial,     \* self._recv_partial_msg: packets accepted since the last delivery
    online,      \* self.online
    sock,        \* self._sock: id of the stream in use, 0 before the first open
    txb,         \* self.txb: bytes written by process_outgoing
    rxb,         \* self.rxb: bytes delivered by process_incoming
    inbound,     \* the messages handed to owner.inbound, in order
    wire,        \* wire[s]: what has been written to stream s, in order
    opened,      \* number of sockets created so far (stream ids are 1..opened)
    pc,          \* pc[p]: position of thread p (0 is the constructor's thread)
    packets,     \* packets[p]: read_loop's local list still to be iterated
    lsock,       \* lsock[p]: open_port's local variable sock
    hist,        \* hist[p]: what thread p has done (zero-length reads, open attempts)
    decodedAll,  \* every packet returned by _decode_mesh_packets so far, in order
    lastPkt,     \* the packet handled by the last iteration of read_loop's for loop
    spc,         \* position of the caller's thread inside process_outgoing
    outq,        \* frames process_outgoing still has to write
    sendId,      \* number of process_outgoing calls made so far
    sendLog,     \* sendLog[i]: payload and online flag seen by the i-th call
    tc,          \* codec scenario: the input drawn for this run
    feedq,       \* codec scenario: byte chunks still to be received
    encoded,     \* codec scenario: the frames _create_mesh_packets returned
    phase,       \* codec scenario: "encode", "feed"
    ifconf       \* the configuration __init__ was called with

objVars  == <<recvbuf, partial, online, sock, txb, rxb, inbound>>
envVars  == <<wire, opened>>
procVars == <<pc, packets, lsock, hist>>
recvHist == <<decodedAll, lastPkt>>
sendVars == <<spc, outq, sendId, sendLog>>
testVars == <<tc, feedq, encoded, phase, ifconf>>
vars == <<objVars, envVars, procVars, recvHist, sendVars, testVars>>

--------------------------------------------------------------------------
(* Program constants *)

MT_MAGIC_0 == 148
MT_MAGIC_1 == 195
PRIVATE_APP == 256
TEXT_MESSAGE_APP == 1

(* Configuration: the channel index the interface is subscribed to. *)
channel == 2

(* Bound: meshtastic's Constants.DATA_PAYLOAD_LEN, scaled down. *)
DATA_PAYLOAD_LEN == 6

MAX_LEN == DATA_PAYLOAD_LEN - 4

mesh_port_num == PRIVATE_APP

--------------------------------------------------------------------------
(* The external codec (ToRadio.SerializeToString / FromRadio.FromString),  *)
(* reduced to the logical fields the interface sets and reads:             *)
(*   inner = <<channel, 0>>                          no 'decoded' payload  *)
(*   inner = <<channel, 1, port hi, port lo>> \o payload                   *)
(* An empty inner message parses to the default packet; anything else is a *)
(* parse failure (FromString raises).                                      *)

Packet(ch, dec, port, pl) ==
    [channel |-> ch, hasDecoded |-> dec, portnum |-> port, payload |-> pl]

DefaultPacket == Packet(0, FALSE, 0, <<>>)

ParseError == [error |-> "DecodeError"]

SerializeToString(p) ==
    IF p.hasDecoded
      THEN <<p.channel, 1, (p.portnum \div 256) % 256, p.portnum % 256>> \o p.payload
      ELSE <<p.channel, 0>>

FromString(inner) ==
    IF Len(inner) = 0 THEN DefaultPacket
    ELSE IF Len(inner) = 2 /\ inner[2] = 0
      THEN Packet(inner[1], FALSE, 0, <<>>)
    ELSE IF Len(inner) >= 4 /\ inner[2] = 1
      THEN Packet(inner[1], TRUE, inner[3] * 256 + inner[4],
                  SubSeq(inner, 5, Len(inner)))
    ELSE ParseError

--------------------------------------------------------------------------
(* Frame encoder *)

(* Variant of WireFrame: the length written low byte first. *)
WireFrame_LittleEndian(packet) ==
    <<MT_MAGIC_0, MT_MAGIC_1, Len(packet) % 256, (Len(packet) \div 256) % 256>>
        \o packet

(* bytes([MT_MAGIC_0, MT_MAGIC_1, (buflen >> 8) & 0xFF, buflen & 0xFF]) + packet *)
WireFrame(packet) ==
    <<MT_MAGIC_0, MT_MAGIC_1, (Len(packet) \div 256) % 256, Len(packet) % 256>>
        \o packet

(* data[start:stop], Python slice semantics (0-based, stop exclusive, clipped) *)
Slice(data, start, stop) ==
    SubSeq(data, start + 1, IF stop > Len(data) THEN Len(data) ELSE stop)

(* Variant of MeshPacketAt: the end-of-series test written with > for >=.  *)
MeshPacketAt_StrictEnd(data, start_byte) ==
    Packet(channel, TRUE,
           IF start_byte + MAX_LEN > Len(data)
             THEN mesh_port_num + 1 ELSE mesh_port_num,
           Slice(data, start_byte, start_byte + MAX_LEN))

(* The mesh packet built by one iteration of the for loop at start_byte. *)
MeshPacketAt(data, start_byte) ==
    Packet(channel, TRUE,
           IF start_byte + MAX_LEN >= Len(data)
             THEN mesh_port_num + 1 ELSE mesh_port_num,
           Slice(data, start_byte, start_byte + MAX_LEN))

(* for start_byte in range(start_byte, len(data), MAX_LEN): the packets built *)
RECURSIVE MeshPacketsFrom(_, _)
MeshPacketsFrom(data, start_byte) ==
    IF start_byte >= Len(data) THEN <<>>
    ELSE <<MeshPacketAt(data, start_byte)>>
            \o MeshPacketsFrom(data, start_byte + MAX_LEN)

_create_mesh_packets(data) ==
    LET pkts == MeshPacketsFrom(data, 0)
    IN  [i \in 1..Len(pkts) |-> WireFrame(SerializeToString(pkts[i]))]

(* The configuration-request frame: ToRadio with want_config_id set. *)
MESH_SPECIAL_NONCE == 69420

_request_mesh_config_info_packet ==
    WireFrame(<<(MESH_SPECIAL_NONCE \div 65536) % 256,
                (MESH_SPECIAL_NONCE \div 256) % 256,
                MESH_SPECIAL_NONCE % 256>>)

--------------------------------------------------------------------------
(* Frame decoder *)

(* bytes.find(b): 0-based index of the first b, -1 when absent *)
Find(buf, b) ==
    IF \E i \in 1..Len(buf) : buf[i] = b
      THEN (CHOOSE i \in 1..Len(buf) :
                buf[i] = b /\ \A j \in 1..(i - 1) : buf[j] # b) - 1
      ELSE -1

DecodeResult(res, buf, exc) == [result |-> res, recvbuf |-> buf, raised |-> exc]

(* The while loop of _decode_mesh_packets on buffer buf with result so far. *)
(* A FromString failure leaves the loop by an exception: the buffer keeps   *)
(* the frame that failed and the packets collected so far are lost.         *)
RECURSIVE DecodeLoop(_, _)
DecodeLoop(buf, result) ==
    IF Len(buf) > 4
      THEN IF buf[1] = MT_MAGIC_0 /\ buf[2] = MT_MAGIC_1
             THEN LET payload_len == buf[3] * 256 + buf[4]
                      end_packet_idx == 4 + payload_len
                  IN  IF end_packet_idx > Len(buf)
                        THEN DecodeResult(result, buf, FALSE)
                        ELSE LET packet == FromString(SubSeq(buf, 5, end_packet_idx))
                             IN  IF packet = ParseError
                                   THEN DecodeResult(<<>>, buf, TRUE)
                                   ELSE DecodeLoop(
                                          SubSeq(buf, end_packet_idx + 1, Len(buf)),
                                          Append(result, packet))
             ELSE DecodeLoop(Tail(buf), result)
      ELSE DecodeResult(result, buf, FALSE)

(* Variant of _decode_mesh_packets: the buffer is kept when find() misses. *)
_decode_mesh_packets_KeepOnMiss(buf0, data) ==
    LET buf == buf0 \o data
        first_magic_idx == Find(buf, MT_MAGIC_0)
    IN  IF first_magic_idx < 0
          THEN DecodeLoop(buf, <<>>)
          ELSE DecodeLoop(SubSeq(buf, first_magic_idx + 1, Len(buf)), <<>>)

_decode_mesh_packets(buf0, data) ==
    LET buf == buf0 \o data
        first_magic_idx == Find(buf, MT_MAGIC_0)
    IN  IF first_magic_idx < 0
          THEN DecodeResult(<<>>, <<>>, FALSE)
          ELSE DecodeLoop(SubSeq(buf, first_magic_idx + 1, Len(buf)), <<>>)

--------------------------------------------------------------------------
(* Bounds of the connection model *)

(* sockets that can be created (constructor plus reconnects) *)
MaxOpens == 2
(* process_outgoing calls *)
MaxSends == 1
(* non-empty reads over all receive threads *)
MaxRecv == 1

Procs == 0..MaxOpens
Threads == 1..MaxOpens

NoHist == [zeroRead |-> FALSE, attempted |-> FALSE]

--------------------------------------------------------------------------
(* read_loop: one receive thread t *)

(* packets = self._decode_mesh_packets(buf), by the thread at t's recv line *)
DecodeStep(t, data) ==
    /\ pc[t] = "rl_recv"
    /\ LET r == _decode_mesh_packets(recvbuf, data)
       IN  /\ recvbuf' = r.recvbuf
           /\ packets' = [packets EXCEPT ![t] = r.result]
           /\ decodedAll' = decodedAll \o r.result
           /\ pc' = [pc EXCEPT ![t] = IF r.raised THEN "crashed"
                                      ELSE IF r.result = <<>> THEN "rl_recv"
                                      ELSE "rl_for"]
    /\ UNCHANGED <<partial, online, sock, txb, rxb, inbound, envVars, lsock,
                   hist, lastPkt, sendVars>>

(* buf = self._sock.recv(2048) returned the non-empty bytes data *)
RlRecvData(t, data) ==
    /\ Len(data) > 0
    /\ DecodeStep(t, data)

(* recv returned zero bytes: "0 len means socket broke", break *)
RlRecvZero(t) ==
    /\ pc[t] = "rl_recv"
    /\ pc' = [pc EXCEPT ![t] = "rl_offline"]
    /\ hist' = [hist EXCEPT ![t].zeroRead = TRUE]
    /\ UNCHANGED <<objVars, envVars, packets, lsock, recvHist, sendVars>>

(* recv raised (connection reset): nothing in read_loop catches it *)
RlRecvError(t) ==
    /\ pc[t] = "rl_recv"
    /\ pc' = [pc EXCEPT ![t] = "crashed"]
    /\ UNCHANGED <<objVars, envVars, packets, lsock, hist, recvHist, sendVars>>

(* b''.join(x.decoded.payload for x in self._recv_partial_msg) *)
RECURSIVE JoinPayloads(_)
JoinPayloads(pkts) ==
    IF pkts = <<>> THEN <<>> ELSE Head(pkts).payload \o JoinPayloads(Tail(pkts))

(* Variant of Accepted: the channel test left out. *)
Accepted_AnyChannel(packet) == packet.hasDecoded

(* the filter of read_loop's for loop *)
Accepted(packet) == packet.hasDecoded /\ packet.channel = channel

(* Variant of IsSentinel: the + 1 left out. *)
IsSentinel_Base(packet) == packet.portnum = mesh_port_num

(* the end-of-message test of read_loop's for loop *)
IsSentinel(packet) == packet.portnum = mesh_port_num + 1

(* one iteration of "for packet in packets", process_incoming included *)
RlPacket(t) ==
    /\ pc[t] = "rl_for"
    /\ packets[t] # <<>>
    /\ LET packet == Head(packets[t])
           msg == Append(partial, packet)
       IN  /\ lastPkt' = packet
           /\ IF Accepted(packet)
                THEN IF IsSentinel(packet)
                       THEN /\ inbound' = Append(inbound, JoinPayloads(msg))
                            /\ rxb' = rxb + Len(JoinPayloads(msg))
                            /\ partial' = <<>>
                       ELSE /\ partial' = msg
                            /\ UNCHANGED <<inbound, rxb>>
                ELSE UNCHANGED <<partial, inbound, rxb>>
    /\ packets' = [packets EXCEPT ![t] = Tail(packets[t])]
    /\ pc' = [pc EXCEPT ![t] = IF Tail(packets[t]) = <<>> THEN "rl_recv" ELSE "rl_for"]
    /\ UNCHANGED <<recvbuf, online, sock, txb, envVars, lsock, hist, decodedAll,
                   sendVars>>

(* "something broke, we need to reconnect": self.online = False *)
RlOffline(t) ==
    /\ pc[t] = "rl_offline"
    /\ online' = FALSE
    /\ pc' = [pc EXCEPT ![t] = "rc_check"]
    /\ UNCHANGED <<recvbuf, partial, sock, txb, rxb, inbound, envVars, packets,
                   lsock, hist, recvHist, sendVars>>

--------------------------------------------------------------------------
(* reconnect_port, open_port, configure_device: thread p (0: __init__) *)

(* while not self.online: ... ; when online, reconnect_port and read_loop return *)
RcCheck(t) ==
    /\ pc[t] = "rc_check"
    /\ pc' = [pc EXCEPT ![t] = IF online THEN "done" ELSE "op_connect"]
    /\ UNCHANGED <<objVars, envVars, packets, lsock, hist, recvHist, sendVars>>

(* Variant of AfterOpenFailure: __init__ logs the exception and goes on to  *)
(* configure_device.                                                        *)
AfterOpenFailure_Swallowed(p) == IF p = 0 THEN "cd_start" ELSE "rc_check"

(* where an exception raised inside open_port lands: the except clause of  *)
(* reconnect_port's loop, or out of __init__                                *)
AfterOpenFailure(p) == IF p = 0 THEN "failed" ELSE "rc_check"

(* Variant of OpConnect: self._sock is assigned as soon as the socket is    *)
(* connected, before the configuration request is sent.                     *)
OpConnect_AssignFirst(p) ==
    /\ pc[p] = "op_connect"
    /\ opened < MaxOpens
    /\ opened' = opened + 1
    /\ wire' = [wire EXCEPT ![opened + 1] = <<>>]
    /\ lsock' = [lsock EXCEPT ![p] = opened + 1]
    /\ sock' = opened + 1
    /\ hist' = [hist EXCEPT ![p].attempted = TRUE]
    /\ pc' = [pc EXCEPT ![p] = "op_sendcfg"]
    /\ UNCHANGED <<recvbuf, partial, online, txb, rxb, inbound, packets, recvHist,
                   sendVars>>

(* sock = socket.socket(); sock.connect((host, port)) succeeded *)
OpConnect(p) ==
    /\ pc[p] = "op_connect"
    /\ opened < MaxOpens
    /\ opened' = opened + 1
    /\ wire' = [wire EXCEPT ![opened + 1] = <<>>]
    /\ lsock' = [lsock EXCEPT ![p] = opened + 1]
    /\ hist' = [hist EXCEPT ![p].attempted = TRUE]
    /\ pc' = [pc EXCEPT ![p] = "op_sendcfg"]
    /\ UNCHANGED <<objVars, packets, recvHist, sendVars>>

(* sock.connect raised *)
OpConnectFail(p) ==
    /\ pc[p] = "op_connect"
    /\ hist' = [hist EXCEPT ![p].attempted = TRUE]
    /\ pc' = [pc EXCEPT ![p] = AfterOpenFailure(p)]
    /\ UNCHANGED <<objVars, envVars, packets, lsock, recvHist, sendVars>>

(* sock.send(self._request_mesh_config_info_packet()) *)
OpSendCfg(p) ==
    /\ pc[p] = "op_sendcfg"
    /\ wire' = [wire EXCEPT ![lsock[p]] =
                    Append(@, [frame |-> _request_mesh_config_info_packet, send |-> 0])]
    /\ pc' = [pc EXCEPT ![p] = "op_assign"]
    /\ UNCHANGED <<objVars, opened, packets, lsock, hist, recvHist, sendVars>>

(* the send of the configuration request raised *)
OpSendCfgFail(p) ==
    /\ pc[p] = "op_sendcfg"
    /\ pc' = [pc EXCEPT ![p] = AfterOpenFailure(p)]
    /\ UNCHANGED <<objVars, envVars, packets, lsock, hist, recvHist, sendVars>>

(* self._sock = sock *)
OpAssign(p) ==
    /\ pc[p] = "op_assign"
    /\ sock' = lsock[p]
    /\ pc' = [pc EXCEPT ![p] = "cd_start"]
    /\ UNCHANGED <<recvbuf, partial, online, txb, rxb, inbound, envVars, packets,
                   lsock, hist, recvHist, sendVars>>

(* configure_device: thread = threading.Thread(target=self.read_loop);     *)
(* thread.start(). The new thread is named after the socket p just opened.  *)
CdStart(p) ==
    /\ pc[p] = "cd_start"
    /\ pc' = [pc EXCEPT ![p] = "cd_online", ![lsock[p]] = "rl_recv"]
    /\ UNCHANGED <<objVars, envVars, packets, lsock, hist, recvHist, sendVars>>

(* where configure_device returns to: __init__'s end or the loop's test *)
AfterConfigure(p) == IF p = 0 THEN "done" ELSE "rc_check"

(* configure_device: self.online = True *)
CdOnline(p) ==
    /\ pc[p] = "cd_online"
    /\ online' = TRUE
    /\ pc' = [pc EXCEPT ![p] = AfterConfigure(p)]
    /\ UNCHANGED <<recvbuf, partial, sock, txb, rxb, inbound, envVars, packets,
                   lsock, hist, recvHist, sendVars>>

--------------------------------------------------------------------------
(* process_outgoing, in the caller's thread *)

(* Variant of OutgoingFrames: the test of self.online left out. *)
OutgoingFrames_Always(data) == _create_mesh_packets(data)

(* the frames process_outgoing will write, decided by "if self.online" *)
OutgoingFrames(data) == IF online THEN _create_mesh_packets(data) ELSE <<>>

(* the call: the test of self.online and the encoding *)
ProcessOutgoing(data) ==
    /\ spc = "idle"
    /\ pc[0] = "done"
    /\ sendId < MaxSends
    /\ sendId' = sendId + 1
    /\ sendLog' = Append(sendLog, [payload |-> data, online |-> online])
    /\ outq' = OutgoingFrames(data)
    /\ spc' = IF OutgoingFrames(data) = <<>> THEN "idle" ELSE "send"
    /\ UNCHANGED <<objVars, envVars, procVars, recvHist>>

(* one iteration: self.txb += self._sock.send(packet) *)
SendFrame ==
    /\ spc = "send"
    /\ wire' = [wire EXCEPT ![sock] = Append(@, [frame |-> Head(outq), send |-> sendId])]
    /\ txb' = txb + Len(Head(outq))
    /\ outq' = Tail(outq)
    /\ spc' = IF Tail(outq) = <<>> THEN "idle" ELSE "send"
    /\ UNCHANGED <<recvbuf, partial, online, sock, rxb, inbound, opened, procVars,
                   recvHist, sendId, sendLog>>

(* self._sock.send raised (broken pipe): the exception leaves process_outgoing *)
SendFrameFail ==
    /\ spc = "send"
    /\ outq' = <<>>
    /\ spc' = "idle"
    /\ UNCHANGED <<objVars, envVars, procVars, recvHist, sendId, sendLog>>

--------------------------------------------------------------------------
(* __init__: the configuration *)

(* Python's None, and a value that is not None *)
None == <<>>

Some(v) == <<v>>

(* the port of meshtastic's TCP interface *)
DEFAULT_PORT == 4403

(* a configuration naming host, port and channel *)
FullConfig == [host |-> "meshtastic.local", port |-> DEFAULT_PORT + 1, channel |-> channel]

(* host = ifconf["host"] if "host" in ifconf else None *)
ConfHost(conf) == IF "host" \in DOMAIN conf THEN Some(conf["host"]) ELSE None

(* port = int(ifconf["port"]) if "port" in ifconf else 4403 *)
ConfPort(conf) == IF "port" \in DOMAIN conf THEN Some(conf["port"]) ELSE Some(DEFAULT_PORT)

(* Variant of ConfChannel: a missing channel defaults to channel 0. *)
ConfChannel_Default(conf) == IF "channel" \in DOMAIN conf THEN Some(conf["channel"]) ELSE Some(0)

(* channel = int(ifconf["channel"]) if "channel" in ifconf else None *)
ConfChannel(conf) == IF "channel" \in DOMAIN conf THEN Some(conf["channel"]) ELSE None

(* the three tests that raise ValueError *)
ConfigRejected(conf) ==
    \/ ConfHost(conf) = None
    \/ ConfPort(conf) = None
    \/ ConfChannel(conf) = None

(* __init__ up to open_port: the configuration is read and tested *)
ReadConfig ==
    /\ pc[0] = "init"
    /\ pc' = [pc EXCEPT ![0] = IF ConfigRejected(ifconf) THEN "config_error"
                                ELSE "op_connect"]
    /\ UNCHANGED <<objVars, envVars, packets, lsock, hist, recvHist, sendVars,
                   testVars>>

--------------------------------------------------------------------------
(* Initial states *)

(* the object as __init__ leaves it before open_port *)
Constructed ==
    /\ recvbuf = <<>>
    /\ partial = <<>>
    /\ online = FALSE
    /\ sock = 0
    /\ txb = 0
    /\ rxb = 0
    /\ inbound = <<>>
    /\ wire = [s \in Threads |-> <<>>]
    /\ opened = 0
    /\ pc = [p \in Procs |-> IF p = 0 THEN "op_connect" ELSE "none"]
    /\ packets = [p \in Procs |-> <<>>]
    /\ lsock = [p \in Procs |-> 0]
    /\ hist = [p \in Procs |-> NoHist]
    /\ decodedAll = <<>>
    /\ lastPkt = DefaultPacket
    /\ spc = "idle"
    /\ outq = <<>>
    /\ sendId = 0
    /\ sendLog = <<>>

(* the object once __init__ has returned: stream 1 open, thread 1 reading *)
Connected ==
    /\ recvbuf = <<>>
    /\ partial = <<>>
    /\ online = TRUE
    /\ sock = 1
    /\ txb = 0
    /\ rxb = 0
    /\ inbound = <<>>
    /\ wire = [s \in Threads |->
                 IF s = 1 THEN <<[frame |-> _request_mesh_config_info_packet,
                                  send |-> 0]>>
                 ELSE <<>>]
    /\ opened = 1
    /\ pc = [p \in Procs |-> IF p = 0 THEN "done"
                             ELSE IF p = 1 THEN "rl_recv" ELSE "none"]
    /\ packets = [p \in Procs |-> <<>>]
    /\ lsock = [p \in Procs |-> IF p = 0 THEN 1 ELSE 0]
    /\ hist = [p \in Procs |-> IF p = 0 THEN [NoHist EXCEPT !.attempted = TRUE]
                               ELSE NoHist]
    /\ decodedAll = <<>>
    /\ lastPkt = DefaultPacket
    /\ spc = "idle"
    /\ outq = <<>>
    /\ sendId = 0
    /\ sendLog = <<>>

--------------------------------------------------------------------------
(* SpecCodec: the encoder, the decoder and the reassembly of read_loop on   *)
(* inputs drawn from bounded sets, run by receive thread 1 of a connected   *)
(* interface.                                                               *)

(* all sequences over S of length lo..hi *)
SeqsOf(S, lo, hi) == UNION {[1..n -> S] : n \in lo..hi}

(* bytes outbound payloads are made of: an ordinary byte and both magic bytes *)
PayloadBytes == {7, MT_MAGIC_0, MT_MAGIC_1}

Payloads == SeqsOf(PayloadBytes, 0, 3 * MAX_LEN)

(* a channel the interface is not subscribed to *)
OtherChannel == channel + 3

(* packets a device may send *)
TestPackets ==
    { Packet(channel, TRUE, mesh_port_num, <<7>>),
      Packet(channel, TRUE, mesh_port_num + 1, <<8>>),
      Packet(channel, TRUE, mesh_port_num + 1, <<>>),
      Packet(channel, TRUE, mesh_port_num, <<MT_MAGIC_0, MT_MAGIC_1>>),
      Packet(channel, TRUE, TEXT_MESSAGE_APP, <<9>>),
      Packet(OtherChannel, TRUE, mesh_port_num + 1, <<10>>),
      Packet(OtherChannel, TRUE, mesh_port_num, <<11>>),
      Packet(channel, FALSE, 0, <<>>) }

(* inner messages the codec parses *)
ValidInner == {<<>>} \cup {SerializeToString(p) : p \in TestPackets}

ValidFrames == {WireFrame(inner) : inner \in ValidInner}

(* longest byte sequence without a magic pair that is fed *)
MaxGarbage == 6

GarbageBytes == {7, MT_MAGIC_0, MT_MAGIC_1}

HasMagicPair(b) ==
    \E i \in 1..(Len(b) - 1) : b[i] = MT_MAGIC_0 /\ b[i + 1] = MT_MAGIC_1

NoMagicSeqs == {b \in SeqsOf(GarbageBytes, 0, MaxGarbage) : ~HasMagicPair(b)}

Case(kind, bytes, k) == [kind |-> kind, bytes |-> bytes, k |-> k]

RoundTripCases == {Case("roundtrip", d, 0) : d \in Payloads}

SplitCases ==
    UNION {{Case("split", f, k) : k \in 0..Len(f)} : f \in ValidFrames}

StrayCases ==
    UNION {{Case("stray", f, b) : b \in 0..255} : f \in ValidFrames}

MissCases == {Case("miss", b, 0) : b \in NoMagicSeqs}

(* the chunks a case feeds without encoding anything *)
ChunksOf(c) ==
    IF c.kind = "split"
      THEN <<SubSeq(c.bytes, 1, c.k), SubSeq(c.bytes, c.k + 1, Len(c.bytes))>>
    ELSE IF c.kind = "stray" THEN <<(<<c.k>> \o c.bytes)>>
    ELSE IF c.kind = "miss" THEN <<c.bytes>>
    ELSE <<>>

InitCodec ==
    /\ Connected
    /\ tc \in RoundTripCases \cup SplitCases \cup StrayCases \cup MissCases
    /\ feedq = ChunksOf(tc)
    /\ encoded = <<>>
    /\ phase = IF tc.kind = "roundtrip" THEN "encode" ELSE "feed"
    /\ ifconf = FullConfig

(* the payload is encoded and its frames are put on the wire towards thread 1 *)
Encode ==
    /\ phase = "encode"
    /\ encoded' = _create_mesh_packets(tc.bytes)
    /\ feedq' = _create_mesh_packets(tc.bytes)
    /\ phase' = "feed"
    /\ UNCHANGED <<objVars, envVars, procVars, recvHist, sendVars, tc, ifconf>>

(* the next chunk is handed to _decode_mesh_packets *)
Feed ==
    /\ phase = "feed"
    /\ feedq # <<>>
    /\ DecodeStep(1, Head(feedq))
    /\ feedq' = Tail(feedq)
    /\ UNCHANGED <<tc, encoded, phase, ifconf>>

(* read_loop's for loop over the packets just decoded *)
Reassemble ==
    /\ RlPacket(1)
    /\ UNCHANGED testVars

NextCodec == Encode \/ Feed \/ Reassemble

SpecCodec == InitCodec /\ [][NextCodec]_vars

--------------------------------------------------------------------------
(* SpecDecode: two _decode_mesh_packets calls of receive thread 1, taken    *)
(* one loop iteration at a time; the second call starts on the buffer the   *)
(* first one left.                                                          *)

(* Variant of Mismatch: the buffer is left as it is. *)
Mismatch_Keep(buf) == buf

(* self._recvbuf = self._recvbuf[1:] *)
Mismatch(buf) == Tail(buf)

(* lines 221-231: the input is appended, the buffer is cut to the first     *)
(* MT_MAGIC_0 or emptied, result = []                                       *)
DecodeEnter(t, data) ==
    /\ pc[t] = "rl_recv"
    /\ LET buf == recvbuf \o data
           first_magic_idx == Find(buf, MT_MAGIC_0)
       IN  IF first_magic_idx < 0
             THEN /\ recvbuf' = <<>>
                  /\ pc' = pc
             ELSE /\ recvbuf' = SubSeq(buf, first_magic_idx + 1, Len(buf))
                  /\ pc' = [pc EXCEPT ![t] = "dm_while"]
    /\ packets' = [packets EXCEPT ![t] = <<>>]
    /\ UNCHANGED <<partial, online, sock, txb, rxb, inbound, envVars, lsock,
                   hist, recvHist, sendVars>>

(* where "return result" takes read_loop *)
AfterDecode(result) == IF result = <<>> THEN "rl_recv" ELSE "rl_for"

(* lines 233-254: the loop test and one iteration of the while loop; the    *)
(* result list is held in packets[t]                                        *)
DecodeIterate(t) ==
    /\ pc[t] = "dm_while"
    /\ LET payload_len == recvbuf[3] * 256 + recvbuf[4]
           end_packet_idx == 4 + payload_len
           packet == FromString(SubSeq(recvbuf, 5, end_packet_idx))
           return == /\ pc' = [pc EXCEPT ![t] = AfterDecode(packets[t])]
                     /\ decodedAll' = decodedAll \o packets[t]
                     /\ UNCHANGED <<recvbuf, packets>>
       IN  IF Len(recvbuf) > 4
             THEN IF recvbuf[1] = MT_MAGIC_0 /\ recvbuf[2] = MT_MAGIC_1
                    THEN IF end_packet_idx > Len(recvbuf)
                           THEN return
                         ELSE IF packet = ParseError
                           THEN /\ pc' = [pc EXCEPT ![t] = "crashed"]
                                /\ packets' = [packets EXCEPT ![t] = <<>>]
                                /\ UNCHANGED <<recvbuf, decodedAll>>
                         ELSE /\ packets' = [packets EXCEPT ![t] = Append(@, packet)]
                              /\ recvbuf' = SubSeq(recvbuf, end_packet_idx + 1,
                                                   Len(recvbuf))
                              /\ UNCHANGED <<pc, decodedAll>>
                    ELSE /\ recvbuf' = Mismatch(recvbuf)
                         /\ UNCHANGED <<pc, packets, decodedAll>>
             ELSE return
    /\ UNCHANGED <<partial, online, sock, txb, rxb, inbound, envVars, lsock,
                   hist, lastPkt, sendVars>>

(* a frame whose inner message the codec rejects *)
BadFrame == WireFrame(<<channel, 9>>)

(* every non-empty prefix of a frame, the frame included *)
PrefixesOf(frame) == {SubSeq(frame, 1, n) : n \in 1..Len(frame)}

FramePrefixes == UNION {PrefixesOf(f) : f \in ValidFrames \cup {BadFrame}}

(* bytes around frames *)
Noise == SeqsOf(GarbageBytes, 1, 3)

(* what the call receives: pieces of frames, noise, a frame after noise,    *)
(* two frames at once                                                       *)
DecodeInputs ==
    FramePrefixes \cup Noise
        \cup {n \o f : n \in SeqsOf(GarbageBytes, 1, 2), f \in ValidFrames \cup {BadFrame}}
        \cup {f \o g : f \in ValidFrames, g \in {WireFrame(<<>>), BadFrame}}

(* what the call before it received *)
EarlierInputs == {d \in FramePrefixes \cup Noise :
                      ~_decode_mesh_packets(<<>>, d).raised}

InitDecode ==
    /\ Connected
    /\ \E d \in EarlierInputs : \E e \in DecodeInputs : tc = Case("decode", <<d, e>>, 0)
    /\ feedq = tc.bytes
    /\ encoded = <<>>
    /\ phase = "feed"
    /\ ifconf = FullConfig

Enter ==
    /\ feedq # <<>>
    /\ DecodeEnter(1, Head(feedq))
    /\ feedq' = Tail(feedq)
    /\ UNCHANGED <<tc, encoded, phase, ifconf>>

Iterate == UNCHANGED testVars /\ DecodeIterate(1)

NextDecode == Enter \/ Iterate \/ Reassemble

SpecDecode == InitDecode /\ [][NextDecode]_vars /\ WF_vars(NextDecode)

--------------------------------------------------------------------------
(* SpecChunks: receive thread 1 of a connected interface receives a byte    *)
(* stream cut into chunks at any places.                                    *)

(* most cuts made in a stream *)
MaxCuts == 2

(* what streams are made of: stray bytes, both magic bytes, a frame with an *)
(* empty inner message, a frame without application payload, a sentinel     *)
(* fragment, a frame the codec rejects                                      *)
StreamPieces ==
    { <<7>>, <<MT_MAGIC_0>>, <<MT_MAGIC_1>>,
      WireFrame(<<>>),
      WireFrame(SerializeToString(Packet(channel, FALSE, 0, <<>>))),
      WireFrame(SerializeToString(Packet(channel, TRUE, mesh_port_num + 1, <<>>))),
      BadFrame }

Streams == StreamPieces \cup {a \o b : a, b \in StreamPieces}

(* the places a stream of n bytes can be cut at, at most MaxCuts of them *)
CutSets(n) == {K \in SUBSET (1..(n - 1)) : Cardinality(K) <= MaxCuts}

(* the chunks of stream from byte from on, cut after the bytes of K *)
RECURSIVE ChunksFrom(_, _, _)
ChunksFrom(stream, from, K) ==
    LET later == {k \in K : k >= from}
    IN  IF later = {} THEN <<SubSeq(stream, from, Len(stream))>>
        ELSE LET k == CHOOSE c \in later : \A d \in later : c <= d
             IN  <<SubSeq(stream, from, k)>> \o ChunksFrom(stream, k + 1, K)

(* the packets returned by the calls on a sequence of chunks, one after the *)
(* other, up to a call that raises                                          *)
RECURSIVE DecodedFrom(_, _)
DecodedFrom(buf, chunks) ==
    IF chunks = <<>> THEN <<>>
    ELSE LET r == _decode_mesh_packets(buf, Head(chunks))
         IN  IF r.raised THEN <<>>
             ELSE r.result \o DecodedFrom(r.recvbuf, Tail(chunks))

InitChunks ==
    /\ Connected
    /\ \E s \in Streams : \E K \in CutSets(Len(s)) :
          /\ tc = Case("chunks", s, K)
          /\ feedq = ChunksFrom(s, 1, K)
    /\ encoded = <<>>
    /\ phase = "feed"
    /\ ifconf = FullConfig

NextChunks == Feed \/ Reassemble

SpecChunks == InitChunks /\ [][NextChunks]_vars

--------------------------------------------------------------------------
(* meshtastic_utils: the decoder without a buffer, and the receive loop of  *)
(* MeshtasticHandle that calls it on every chunk read (thread 1).           *)

StatelessResult(res, exc) == [result |-> res, raised |-> exc]

(* The while loop of decode_mesh_packets at 0-based index idx. data[i] of   *)
(* the source is data[i + 1] here; an index beyond the chunk raises         *)
(* IndexError, a slice beyond it is clipped.                                *)
RECURSIVE StatelessLoop(_, _, _)
StatelessLoop(data, idx, result) ==
    IF idx < Len(data)
      THEN IF data[idx + 1] # MT_MAGIC_0
             THEN StatelessLoop(data, idx + 1, result)
           ELSE IF idx + 1 >= Len(data)
             THEN StatelessResult(<<>>, "IndexError")
           ELSE IF data[idx + 2] # MT_MAGIC_1
             THEN StatelessLoop(data, idx + 1, result)
           ELSE IF idx + 3 >= Len(data)
             THEN StatelessResult(<<>>, "IndexError")
           ELSE LET payload_len == data[idx + 3] * 256 + data[idx + 4]
                    start_packet_idx == idx + 4
                    end_packet_idx == start_packet_idx + payload_len
                    packet == FromString(Slice(data, start_packet_idx, end_packet_idx))
                IN  IF packet = ParseError
                      THEN StatelessResult(<<>>, "DecodeError")
                      ELSE StatelessLoop(data, end_packet_idx, Append(result, packet))
      ELSE StatelessResult(result, "none")

decode_mesh_packets(data) == StatelessLoop(data, 0, <<>>)

(* _recv_loop: data = self.sock.recv(1024); decode_mesh_packets(data). An   *)
(* exception ends the thread at the position named after it.                *)
HandleRecv(data) ==
    /\ pc[1] = "rl_recv"
    /\ Len(data) > 0
    /\ LET r == decode_mesh_packets(data)
       IN  /\ packets' = [packets EXCEPT ![1] = r.result]
           /\ decodedAll' = decodedAll \o r.result
           /\ pc' = [pc EXCEPT ![1] = IF r.raised # "none" THEN r.raised
                                      ELSE IF r.result = <<>> THEN "rl_recv"
                                      ELSE "rl_for"]
    /\ UNCHANGED <<objVars, envVars, lsock, hist, lastPkt, sendVars>>

(* _recv_loop: if not data: return *)
HandleRecvEmpty ==
    /\ pc[1] = "rl_recv"
    /\ pc' = [pc EXCEPT ![1] = "done"]
    /\ UNCHANGED <<objVars, envVars, packets, lsock, hist, recvHist, sendVars>>

(* _recv_loop: one iteration of the for loop, callback(payload) included *)
HandleCallback ==
    /\ pc[1] = "rl_for"
    /\ packets[1] # <<>>
    /\ LET packet == Head(packets[1])
       IN  /\ lastPkt' = packet
           /\ inbound' = IF packet.hasDecoded /\ packet.channel = channel
                           THEN Append(inbound, packet.payload)
                           ELSE inbound
    /\ packets' = [packets EXCEPT ![1] = Tail(packets[1])]
    /\ pc' = [pc EXCEPT ![1] = IF Tail(packets[1]) = <<>> THEN "rl_recv" ELSE "rl_for"]
    /\ UNCHANGED <<recvbuf, partial, online, sock, txb, rxb, envVars, lsock, hist,
                   decodedAll, sendVars>>

(* SpecHandle: the receive loop of a connected MeshtasticHandle reads one   *)
(* chunk drawn from DecodeInputs, then the stream is closed.                *)
InitHandle ==
    /\ Connected
    /\ \E d \in DecodeInputs : tc = Case("chunk", d, 0)
    /\ feedq = <<tc.bytes>>
    /\ encoded = <<>>
    /\ phase = "feed"
    /\ ifconf = FullConfig

ReadChunk ==
    /\ feedq # <<>>
    /\ HandleRecv(Head(feedq))
    /\ feedq' = Tail(feedq)
    /\ UNCHANGED <<tc, encoded, phase, ifconf>>

ReadClosed == UNCHANGED testVars /\ feedq = <<>> /\ HandleRecvEmpty

Callback == UNCHANGED testVars /\ HandleCallback

NextHandle == ReadChunk \/ ReadClosed \/ Callback

SpecHandle == InitHandle /\ [][NextHandle]_vars

--------------------------------------------------------------------------
(* SpecRecv: receive thread 1 of a connected interface reads any sequence   *)
(* of frames a device may send, one frame per read.                         *)

(* packets decoded over a run *)
MaxPackets == 4

InitRecv ==
    /\ Connected
    /\ tc = Case("stream", <<>>, 0)
    /\ feedq = <<>>
    /\ encoded = <<>>
    /\ phase = "live"
    /\ ifconf = FullConfig

RecvFrame ==
    /\ Len(decodedAll) < MaxPackets
    /\ \E pkt \in TestPackets : RlRecvData(1, WireFrame(SerializeToString(pkt)))
    /\ UNCHANGED testVars

NextRecv == RecvFrame \/ Reassemble

SpecRecv == InitRecv /\ [][NextRecv]_vars

--------------------------------------------------------------------------
(* Spec: the connection lifecycle. The constructor's thread (0) opens the   *)
(* port and configures the device; receive threads read, detect the         *)
(* disconnect and reconnect; the caller's thread sends.                     *)

(* what a read may return while connected: a fragment, a sentinel fragment, *)
(* the first bytes of a frame                                               *)
LiveChunks ==
    { WireFrame(SerializeToString(Packet(channel, TRUE, mesh_port_num, <<7>>))),
      WireFrame(SerializeToString(Packet(channel, TRUE, mesh_port_num + 1, <<8>>))),
      SubSeq(WireFrame(SerializeToString(
                 Packet(channel, TRUE, mesh_port_num + 1, <<8>>))), 1, 5) }

(* payloads the caller sends: one fragment, two fragments *)
SendPayloads == {<<7>>, [i \in 1..(MAX_LEN + 1) |-> 7]}

Init ==
    /\ Constructed
    /\ tc = Case("live", <<>>, 0)
    /\ feedq = <<>>
    /\ encoded = <<>>
    /\ phase = "live"
    /\ ifconf = FullConfig

Connect == UNCHANGED testVars /\ \E p \in Procs : OpConnect(p)

ConnectFail == UNCHANGED testVars /\ \E p \in Procs : OpConnectFail(p)

SendCfg == UNCHANGED testVars /\ \E p \in Procs : OpSendCfg(p)

SendCfgFail == UNCHANGED testVars /\ \E p \in Procs : OpSendCfgFail(p)

AssignSock == UNCHANGED testVars /\ \E p \in Procs : OpAssign(p)

StartThread == UNCHANGED testVars /\ \E p \in Procs : CdStart(p)

SetOnline == UNCHANGED testVars /\ \E p \in Procs : CdOnline(p)

RecvData ==
    /\ UNCHANGED testVars
    /\ Len(decodedAll) < MaxRecv
    /\ \E t \in Threads : \E c \in LiveChunks : RlRecvData(t, c)

RecvZero == UNCHANGED testVars /\ \E t \in Threads : RlRecvZero(t)

RecvError == UNCHANGED testVars /\ \E t \in Threads : RlRecvError(t)

HandlePacket == UNCHANGED testVars /\ \E t \in Threads : RlPacket(t)

SetOffline == UNCHANGED testVars /\ \E t \in Threads : RlOffline(t)

LoopTest == UNCHANGED testVars /\ \E t \in Threads : RcCheck(t)

Send == UNCHANGED testVars /\ \E d \in SendPayloads : ProcessOutgoing(d)

SendNext == UNCHANGED testVars /\ SendFrame

SendRaise == UNCHANGED testVars /\ SendFrameFail

Next ==
    \/ Connect \/ ConnectFail \/ SendCfg \/ SendCfgFail \/ AssignSock
    \/ StartThread \/ SetOnline
    \/ RecvData \/ RecvZero \/ RecvError \/ HandlePacket \/ SetOffline \/ LoopTest
    \/ Send \/ SendNext \/ SendRaise

Spec == Init /\ [][Next]_vars

--------------------------------------------------------------------------
(* SpecRecover: the lifecycle with a fair scheduler, in an environment      *)
(* whose faults end: the first stream may break at any time, every stream   *)
(* opened after it stays up and carries whole frames, and an open_port that *)
(* is attempted again and again succeeds.                                   *)

(* whole frames of LiveChunks *)
LiveFrames == {c \in LiveChunks : Len(c) = 4 + c[3] * 256 + c[4]}

FirstStreamData ==
    /\ UNCHANGED testVars
    /\ sock = 1
    /\ Len(decodedAll) < MaxRecv
    /\ \E t \in Threads : \E c \in LiveChunks : RlRecvData(t, c)

NewStreamFrame ==
    /\ UNCHANGED testVars
    /\ sock > 1
    /\ Len(decodedAll) < MaxRecv
    /\ \E t \in Threads : \E c \in LiveFrames : RlRecvData(t, c)

FirstStreamZero == UNCHANGED testVars /\ sock = 1 /\ \E t \in Threads : RlRecvZero(t)

FirstStreamError == UNCHANGED testVars /\ sock = 1 /\ \E t \in Threads : RlRecvError(t)

(* the send of the configuration request fails while opens remain *)
SendCfgFailRetry ==
    /\ UNCHANGED testVars
    /\ opened < MaxOpens
    /\ \E p \in Procs : OpSendCfgFail(p)

NextRecover ==
    \/ Connect \/ ConnectFail \/ SendCfg \/ SendCfgFailRetry \/ AssignSock
    \/ StartThread \/ SetOnline
    \/ FirstStreamData \/ NewStreamFrame \/ FirstStreamZero \/ FirstStreamError
    \/ HandlePacket \/ SetOffline \/ LoopTest
    \/ Send \/ SendNext \/ SendRaise

(* the statements of thread p that need nothing from the environment *)
ProgramStep(p) ==
    /\ UNCHANGED testVars
    /\ \/ OpSendCfg(p) \/ OpAssign(p) \/ CdStart(p) \/ CdOnline(p)
       \/ (p \in Threads /\ (RlPacket(p) \/ RlOffline(p) \/ RcCheck(p)))

Fairness ==
    \A p \in Procs :
        /\ WF_vars(ProgramStep(p))
        /\ SF_vars(UNCHANGED testVars /\ OpConnect(p))

SpecRecover == Init /\ [][NextRecover]_vars /\ Fairness

--------------------------------------------------------------------------
(* SpecConfig: the lifecycle from the call of __init__, with any subset of  *)
(* host, port and channel present in the configuration.                     *)

(* FullConfig with only the keys of K *)
Restrict(conf, K) == [k \in K |-> conf[k]]

Configs == {Restrict(FullConfig, K) : K \in SUBSET (DOMAIN FullConfig)}

(* __init__ has been called: lines 73-74 have run, the configuration is unread *)
InitConfig ==
    /\ recvbuf = <<>>
    /\ partial = <<>>
    /\ online = FALSE
    /\ sock = 0
    /\ txb = 0
    /\ rxb = 0
    /\ inbound = <<>>
    /\ wire = [s \in Threads |-> <<>>]
    /\ opened = 0
    /\ pc = [p \in Procs |-> IF p = 0 THEN "init" ELSE "none"]
    /\ packets = [p \in Procs |-> <<>>]
    /\ lsock = [p \in Procs |-> 0]
    /\ hist = [p \in Procs |-> NoHist]
    /\ decodedAll = <<>>
    /\ lastPkt = DefaultPacket
    /\ spc = "idle"
    /\ outq = <<>>
    /\ sendId = 0
    /\ sendLog = <<>>
    /\ tc = Case("live", <<>>, 0)
    /\ feedq = <<>>
    /\ encoded = <<>>
    /\ phase = "live"
    /\ ifconf \in Configs

NextConfig == ReadConfig \/ Next

SpecConfig == InitConfig /\ [][NextConfig]_vars

--------------------------------------------------------------------------
(* Properties of the codec *)

(* the inner message of a wire frame *)
Inner(frame) == SubSeq(frame, 5, Len(frame))

(* the packet a frame carries *)
Carried(frame) == FromString(Inner(frame))

(* every chunk of the case has been fed and read_loop is back at its recv *)
Fed == phase = "feed" /\ feedq = <<>> /\ pc[1] = "rl_recv"

(* ceil(n / m) *)
CeilDiv(n, m) == (n + m - 1) \div m

(* C1: Round trip. Once the frames _create_mesh_packets made of a payload  *)
(* have all gone, in order, through _decode_mesh_packets and read_loop's    *)
(* reassembly, exactly one message has been delivered upstream and it is    *)
(* the payload.                                                             *)
C1_RoundTrip ==
    (tc.kind = "roundtrip" /\ Fed) => inbound = <<tc.bytes>>

(* C2: Fragmentation shape. A payload of n >= 1 bytes is encoded into       *)
(* ceil(n / MAX_LEN) fragments, each carrying 1..MAX_LEN payload bytes,     *)
(* whose payloads concatenate to the payload; every fragment but the last   *)
(* carries the base port number and the last carries base + 1.              *)
C2_FragmentShape ==
    (tc.kind = "roundtrip" /\ phase = "feed" /\ Len(tc.bytes) >= 1) =>
        LET frags == [i \in 1..Len(encoded) |-> Carried(encoded[i])]
        IN  /\ Len(encoded) = CeilDiv(Len(tc.bytes), MAX_LEN)
            /\ \A i \in 1..Len(frags) :
                  /\ frags[i] # ParseError
                  /\ frags[i].hasDecoded
                  /\ Len(frags[i].payload) \in 1..MAX_LEN
                  /\ frags[i].portnum =
                        IF i = Len(frags) THEN mesh_port_num + 1 ELSE mesh_port_num
            /\ JoinPayloads(frags) = tc.bytes

(* a payload of exactly three full fragments has been encoded into three *)
C2_Witness ==
    /\ tc.kind = "roundtrip"
    /\ phase = "feed"
    /\ Len(tc.bytes) = 3 * MAX_LEN
    /\ Len(encoded) = 3
    /\ Carried(encoded[3]).portnum = mesh_port_num + 1

(* C3: Empty payload. Encoding a zero-length payload gives exactly one      *)
(* fragment, with an empty payload and port number base + 1.                *)
C3_EmptyPayloadOneFragment ==
    (tc.kind = "roundtrip" /\ phase = "feed" /\ tc.bytes = <<>>) =>
        /\ Len(encoded) = 1
        /\ Carried(encoded[1]).payload = <<>>
        /\ Carried(encoded[1]).portnum = mesh_port_num + 1

(* C4: Split-frame tolerance. A valid frame fed in two calls, cut at any    *)
(* offset, yields over the two calls exactly one packet, the one the frame  *)
(* carries.                                                                 *)
C4_SplitFrame ==
    (tc.kind = "split" /\ Fed) => decodedAll = <<Carried(tc.bytes)>>

(* C5: Desync recovery. One stray byte followed by a complete valid frame,  *)
(* fed in one call, yields exactly the packet the frame carries.            *)
C5_DesyncRecovery ==
    (tc.kind = "stray" /\ Fed) => decodedAll = <<Carried(tc.bytes)>>

(* C6: Resync total-miss, as claimed. Bytes without a magic pair decode to  *)
(* nothing and leave the residual buffer empty.                             *)
C6_TotalMissEmptiesBuffer ==
    (tc.kind = "miss" /\ Fed) => (decodedAll = <<>> /\ recvbuf = <<>>)

(* buf ends with tail *)
IsSuffix(tail, buf) ==
    /\ Len(tail) <= Len(buf)
    /\ tail = SubSeq(buf, Len(buf) - Len(tail) + 1, Len(buf))

(* C6, amended: bytes without a magic pair decode to nothing and leave at   *)
(* most 4 residual bytes, a suffix of the input; the residual is empty when *)
(* the input holds no 0x94 byte at all.                                     *)
C6_TotalMissResidual ==
    (tc.kind = "miss" /\ Fed) =>
        /\ decodedAll = <<>>
        /\ Len(recvbuf) <= 4
        /\ IsSuffix(recvbuf, tc.bytes)
        /\ (Find(tc.bytes, MT_MAGIC_0) < 0 => recvbuf = <<>>)

(* more than 4 bytes with a lone 0x94 were fed and bytes stay buffered *)
C6_Witness ==
    /\ tc.kind = "miss"
    /\ Fed
    /\ Len(tc.bytes) > 4
    /\ Find(tc.bytes, MT_MAGIC_0) >= 0
    /\ recvbuf # <<>>

--------------------------------------------------------------------------
(* Properties of the receive path *)

(* the packets read_loop's for loop has handled so far *)
Handled == SubSeq(decodedAll, 1, Len(decodedAll) - Len(packets[1]))

(* a packet with an application payload on the subscribed channel *)
OnSubscribedChannel(p) == p.hasDecoded /\ p.channel = channel

(* a packet that ends a fragment series *)
EndsSeries(p) == p.portnum = PRIVATE_APP + 1

(* the messages completed by a sequence of packets, cur being the payload   *)
(* bytes gathered since the last completed message                          *)
RECURSIVE Messages(_, _)
Messages(pkts, cur) ==
    IF pkts = <<>> THEN <<>>
    ELSE IF EndsSeries(Head(pkts))
      THEN <<cur \o Head(pkts).payload>> \o Messages(Tail(pkts), <<>>)
    ELSE Messages(Tail(pkts), cur \o Head(pkts).payload)

(* the packets gathered since the last completed message *)
RECURSIVE Pending(_, _)
Pending(pkts, cur) ==
    IF pkts = <<>> THEN cur
    ELSE IF EndsSeries(Head(pkts)) THEN Pending(Tail(pkts), <<>>)
    ELSE Pending(Tail(pkts), Append(cur, Head(pkts)))

RECURSIVE SumLen(_)
SumLen(msgs) == IF msgs = <<>> THEN 0 ELSE Len(Head(msgs)) + SumLen(Tail(msgs))

(* C7: Channel and payload filter. An iteration of read_loop's for loop on  *)
(* a packet of another channel, or without application payload, leaves the  *)
(* in-progress fragment list unchanged and delivers nothing upstream,       *)
(* whatever its port number and wherever it comes in the sequence.          *)
C7_FilteredPacketIgnored ==
    [][(pc[1] = "rl_for" /\ ~OnSubscribedChannel(Head(packets[1])))
          => (partial' = partial /\ inbound' = inbound /\ rxb' = rxb)]_vars

(* a sentinel of another channel was handled between two fragments of a     *)
(* message of the subscribed channel, and nothing was delivered             *)
C7_Witness ==
    /\ pc[1] = "rl_recv"
    /\ lastPkt.channel = OtherChannel
    /\ lastPkt.portnum = PRIVATE_APP + 1
    /\ partial # <<>>
    /\ inbound = <<>>
    /\ Len(decodedAll) >= 2

(* C8: Sentinel reassembly. Upstream has received exactly one message per   *)
(* accepted packet with port number base + 1, each the concatenation, in    *)
(* arrival order, of the payloads accepted since the previous delivery; the *)
(* in-progress list holds exactly the packets accepted since then, so it is *)
(* empty right after a delivery; rxb counts the delivered bytes.            *)
C8_SentinelReassembly ==
    LET acc == SelectSeq(Handled, OnSubscribedChannel)
    IN  /\ inbound = Messages(acc, <<>>)
        /\ partial = Pending(acc, <<>>)
        /\ rxb = SumLen(inbound)

(* two messages were delivered, the first made of two fragments *)
C8_Witness ==
    /\ Len(inbound) = 2
    /\ inbound[1] = <<7, 8>>
    /\ partial = <<>>
    /\ pc[1] = "rl_recv"

--------------------------------------------------------------------------
(* Properties of the connection *)

(* C9: A send while not online is a pure drop. A process_outgoing call that *)
(* finds the online flag false changes nothing but the record of the call,  *)
(* and no stream ever holds a frame of a call that found the flag false.    *)
C9_OfflineSendDropped ==
    /\ [](\A s \in Threads : \A i \in 1..Len(wire[s]) :
             wire[s][i].send # 0 => sendLog[wire[s][i].send].online)
    /\ [][(spc = "idle" /\ sendId' = sendId + 1 /\ ~online)
             => /\ wire' = wire
                /\ objVars' = objVars
                /\ opened' = opened
                /\ procVars' = procVars
                /\ outq' = outq
                /\ spc' = "idle"]_vars

(* a call was dropped while a receive thread was reconnecting; the          *)
(* connection is online again on the second stream and no stream holds a    *)
(* frame of the call                                                        *)
C9_Witness ==
    /\ sendLog # <<>>
    /\ ~sendLog[1].online
    /\ online
    /\ sock = 2
    /\ spc = "idle"
    /\ \A s \in Threads : \A i \in 1..Len(wire[s]) : wire[s][i].send = 0

(* C10: Disconnect detection. A receive thread that got a zero-length read  *)
(* does not end before it has attempted an open() in the reconnect loop.    *)
C10_ZeroReadReconnects ==
    \A t \in Threads :
        (pc[t] = "done" /\ hist[t].zeroRead) => hist[t].attempted


(* a receive thread is between two reads of the current stream *)
Reading(t) == pc[t] \in {"rl_recv", "rl_for"}

(* C11: Unbounded reconnect and recovery. A failure of open_port inside the *)
(* reconnect loop leads back to the loop's test, never out of the loop; and *)
(* a thread in the loop whose opens can succeed leads to the connection     *)
(* being online on a stream opened by a reconnect with a receive thread     *)
(* reading it.                                                              *)
C11_ReconnectRecovers ==
    /\ [][\A t \in Threads :
            (pc[t] \in {"op_connect", "op_sendcfg"} /\ pc'[t] # pc[t])
               => pc'[t] \in {"op_sendcfg", "op_assign", "rc_check"}]_vars
    /\ \A t \in Threads :
          (pc[t] = "op_connect" /\ opened < MaxOpens)
             ~> (online /\ sock > 1 /\ \E u \in Threads : Reading(u))

(* C12: Runtime faults. While the connection is online, whatever takes a    *)
(* receive thread out of its reading loop, a recv that raises and a frame   *)
(* the codec rejects included, takes it to the disconnect handling that     *)
(* clears the online flag and enters the reconnect loop.                    *)
C12_FaultsLeadToReconnect ==
    [][\A t \in Threads :
          (online /\ Reading(t) /\ ~Reading(t)') => pc'[t] = "rl_offline"]_vars

(* C13: Receive state reset on reconnect. When a reconnect has opened its   *)
(* stream and is about to start the receive thread that reads it and to set *)
(* the online flag, the raw receive buffer and the in-progress fragment     *)
(* list are empty: nothing received before the disconnect is left to be     *)
(* joined with what the new stream delivers.                                *)
C13_ReceiveStateReset ==
    \A t \in Threads :
        pc[t] = "cd_start" => (recvbuf = <<>> /\ partial = <<>>)

(* C14: Initial open failure. An open_port that raises inside __init__      *)
(* takes the constructor out with the exception, and from then on the       *)
(* connection is not online, no receive thread has been started and nothing *)
(* is in the reconnect loop.                                                *)
C14_InitialOpenFailure ==
    /\ [](pc[0] = "failed" =>
             /\ ~online
             /\ sock = 0
             /\ \A t \in Threads : pc[t] = "none" /\ ~hist[t].attempted)
    /\ [][(pc[0] \in {"op_connect", "op_sendcfg"}
              /\ pc'[0] \notin {pc[0], "op_sendcfg", "op_assign"})
             => pc'[0] = "failed"]_vars

(* the constructor connected, the send of the configuration request raised  *)
C14_Witness ==
    /\ pc[0] = "failed"
    /\ opened = 1
    /\ wire[1] = <<>>

(* the constructor has read and tested the configuration *)
ConfigRead == pc[0] # "init"

(* nothing was opened, sent or started, and the connection is not online *)
NoIO ==
    /\ opened = 0
    /\ sock = 0
    /\ wire = [s \in Threads |-> <<>>]
    /\ \A t \in Threads : pc[t] = "none"
    /\ ~online

WellFramed(frame) ==
    /\ Len(frame) >= 4
    /\ frame[1] = MT_MAGIC_0
    /\ frame[2] = MT_MAGIC_1
    /\ frame[3] \in 0..255
    /\ frame[4] \in 0..255
    /\ frame[3] * 256 + frame[4] = Len(Inner(frame))
    /\ Len(Inner(frame)) < 256 * 256

(* C16: Wire-frame invariant. The configuration-request frame and every     *)
(* frame the encoder returns for a payload are the magic pair, a 2-byte     *)
(* big-endian length and the inner bytes, the length being the number of    *)
(* inner bytes, which stays below 2^16.                                     *)
C16_WireFrame ==
    /\ WellFramed(_request_mesh_config_info_packet)
    /\ (tc.kind = "roundtrip" /\ phase = "feed") =>
          \A i \in 1..Len(encoded) :
              /\ WellFramed(encoded[i])
              /\ Len(Inner(encoded[i])) <= MAX_LEN + 4

(* a payload of two full fragments and one byte has been encoded into three *)
(* frames                                                                   *)
C16_Witness ==
    /\ tc.kind = "roundtrip"
    /\ phase = "feed"
    /\ Len(tc.bytes) = 2 * MAX_LEN + 1
    /\ Len(encoded) = 3

(* buf starts with a frame that is buffered whole *)
CompleteFrameAhead(buf) ==
    /\ Len(buf) >= 4
    /\ buf[1] = MT_MAGIC_0
    /\ buf[2] = MT_MAGIC_1
    /\ Len(buf) >= 4 + buf[3] * 256 + buf[4]

(* C17: No complete frame is left pending. After a _decode_mesh_packets     *)
(* call that returned, the receive buffer does not start with the magic     *)
(* pair and a length L with at least 4 + L bytes buffered, for any L >= 0.  *)
C17_NoCompleteFramePending ==
    (phase = "feed" /\ pc[1] # "crashed") => ~CompleteFrameAhead(recvbuf)

(* the buffer the first call of a decode case leaves *)
BufferBefore == _decode_mesh_packets(<<>>, tc.bytes[1]).recvbuf

(* the buffer and the input of the call under way or just returned *)
CallBuffer == IF feedq = <<>> THEN BufferBefore ELSE <<>>

CallInput == IF feedq = <<>> THEN tc.bytes[2] ELSE tc.bytes[1]

(* the step on which a call returns: out of the loop, or before it when the *)
(* buffer holds no MT_MAGIC_0                                               *)
CallReturns ==
    \/ feedq' # feedq /\ pc'[1] = "rl_recv"
    \/ pc[1] = "dm_while" /\ pc'[1] \in {"rl_recv", "rl_for"}

(* C18: Decoder bounded progress. An iteration of the decode loop that does *)
(* not leave the loop strictly shortens the buffer from the front, by one   *)
(* byte on a magic mismatch and by a whole frame of at least 4 bytes on a   *)
(* decode; the call ends, and when it returns the buffer is a suffix of the *)
(* previous buffer followed by the input (and buffer and result are those   *)
(* of the call taken as one step).                                          *)
C18_DecoderProgress ==
    /\ [][(pc[1] = "dm_while" /\ pc'[1] = "dm_while") =>
             /\ IsSuffix(recvbuf', recvbuf)
             /\ \/ (Len(recvbuf') = Len(recvbuf) - 1 /\ packets' = packets)
                \/ (Len(recvbuf') <= Len(recvbuf) - 4
                      /\ Len(packets'[1]) = Len(packets[1]) + 1)]_vars
    /\ [][CallReturns =>
             /\ IsSuffix(recvbuf', CallBuffer' \o CallInput')
             /\ recvbuf' = _decode_mesh_packets(CallBuffer', CallInput').recvbuf
             /\ packets'[1] = _decode_mesh_packets(CallBuffer', CallInput').result]_vars
    /\ <>(feedq = <<>> /\ pc[1] # "dm_while")

(* the second call started on a buffered MT_MAGIC_0, dropped it and the     *)
(* byte after it on mismatches, decoded the frame that followed and         *)
(* returned with an empty buffer                                            *)
C18_Witness ==
    /\ tc.kind = "decode"
    /\ feedq = <<>>
    /\ pc[1] = "rl_for"
    /\ BufferBefore = <<MT_MAGIC_0>>
    /\ tc.bytes[2][1] = 7
    /\ Len(packets[1]) = 1
    /\ recvbuf = <<>>

(* thread t is in read_loop's reading loop or at work in the reconnect loop *)
(* it called; a thread that has started its successor and is on its way to  *)
(* the loop test that lets it return is not counted                         *)
InReceivePath(t) ==
    \/ Reading(t)
    \/ pc[t] \in {"rl_offline", "op_connect", "op_sendcfg", "op_assign", "cd_start"}

(* C19: Single receive task. In every reachable state at most one thread is *)
(* executing the receive path, read_loop or the reconnect loop it calls.    *)
C19_SingleReceiveTask ==
    \A t, u \in Threads : (InReceivePath(t) /\ InReceivePath(u)) => t = u

(* the frames of the i-th process_outgoing call written to stream s, in the *)
(* order they were written                                                  *)
SentOn(s, i) ==
    LET es == SelectSeq(wire[s], LAMBDA e : e.send = i)
    IN  [k \in 1..Len(es) |-> es[k].frame]

(* the number of frames of the i-th call written to the streams 1..s *)
RECURSIVE SentCount(_, _)
SentCount(s, i) == IF s = 0 THEN 0 ELSE Len(SentOn(s, i)) + SentCount(s - 1, i)

(* the i-th call is over *)
CallOver(i) == i < sendId \/ (i = sendId /\ spc = "idle")

(* C20: Send/receive race. A process_outgoing call that has written every   *)
(* frame of its payload has written them, in encoder order, to one and the  *)
(* same stream: no stream holds only a proper part of the frames, whatever  *)
(* disconnect and reconnect steps were taken during the call.               *)
C20_SendAllOrNothing ==
    \A i \in 1..Len(sendLog) :
        LET frames == _create_mesh_packets(sendLog[i].payload)
        IN  (CallOver(i) /\ SentCount(MaxOpens, i) = Len(frames)) =>
                \A s \in Threads : SentOn(s, i) \in {<<>>, frames}

--------------------------------------------------------------------------
(* Properties of the handshake *)

(* the configuration request is the first thing written to stream s *)
ConfigRequested(s) ==
    /\ wire[s] # <<>>
    /\ wire[s][1] = [frame |-> _request_mesh_config_info_packet, send |-> 0]

(* C21: Handshake ordering. On every stream the configuration-request frame *)
(* is the first data written; the stream the send path uses has had it      *)
(* written; the online flag is set to true only by a thread whose open_port *)
(* succeeded, on a stream that has had it written; and a failure of         *)
(* open_port in the reconnect loop never sets the flag.                     *)
C21_HandshakeOrdering ==
    /\ [](\A s \in Threads : wire[s] # <<>> => ConfigRequested(s))
    /\ [](sock # 0 => ConfigRequested(sock))
    /\ [][(online' /\ ~online) =>
             \E p \in Procs : /\ pc[p] = "cd_online"
                              /\ lsock[p] # 0
                              /\ ConfigRequested(lsock[p])]_vars
    /\ [][\A t \in Threads :
             (pc[t] \in {"op_connect", "op_sendcfg"} /\ pc'[t] = "rc_check")
                => online' = online]_vars

(* after a reconnect the connection is online on the second stream, which   *)
(* holds the configuration request followed by a frame of the caller        *)
C21_Witness ==
    /\ online
    /\ sock = 2
    /\ Len(wire[2]) = 2
    /\ ConfigRequested(2)
    /\ wire[2][2].send = 1

--------------------------------------------------------------------------
(* Properties of the fragment series *)

(* a port number of the fragment series: base, or base + 1 on the sentinel *)
SeriesPort(p) == p.portnum \in {mesh_port_num, mesh_port_num + 1}

(* a packet of the subscribed channel with an application payload and a    *)
(* port number of the fragment series                                       *)
InSeries(p) == OnSubscribedChannel(p) /\ SeriesPort(p)

(* C22: Port-number filtering. An iteration of read_loop's for loop on a    *)
(* packet of the subscribed channel that carries an application payload     *)
(* with a port number other than base and base + 1 leaves the in-progress   *)
(* fragment list unchanged and delivers nothing, and the delivered messages *)
(* are the concatenations of the payloads of the packets with port number   *)
(* base or base + 1 only.                                                   *)
C22_OtherPortIgnored ==
    /\ [][(pc[1] = "rl_for" /\ OnSubscribedChannel(Head(packets[1]))
              /\ ~SeriesPort(Head(packets[1])))
             => (partial' = partial /\ inbound' = inbound)]_vars
    /\ [](inbound = Messages(SelectSeq(Handled, InSeries), <<>>))

--------------------------------------------------------------------------
(* Properties of the decoder over a chunked stream *)

(* all chunks have been handed to the decoder, or a call has raised *)
StreamFed == feedq = <<>> \/ pc[1] = "crashed"

(* C23: Chunking independence. Once the chunks of a stream have been fed,   *)
(* from an empty buffer, the packets returned over the calls are those      *)
(* returned when the stream is fed as one chunk, wherever the cuts fall.    *)
C23_ChunkingIndependence ==
    (tc.kind = "chunks" /\ StreamFed) =>
        decodedAll = DecodedFrom(<<>>, <<tc.bytes>>)

--------------------------------------------------------------------------
(* Properties of the decoder without a buffer *)

(* chunk is the head of a frame, with the whole header and not the whole    *)
(* inner message                                                            *)
TruncatedFrame(chunk) ==
    \E f \in ValidFrames : \E n \in 4..(Len(f) - 1) : chunk = SubSeq(f, 1, n)

(* C24: The decoder without a buffer is safe on arbitrary chunks. No chunk  *)
(* makes decode_mesh_packets raise an index error, and a chunk that is a    *)
(* frame cut short of its declared length neither ends the receive loop nor *)
(* yields a packet.                                                         *)
C24_StatelessDecoderSafe ==
    (tc.kind = "chunk" /\ feedq = <<>>) =>
        /\ pc[1] # "IndexError"
        /\ TruncatedFrame(tc.bytes) => (pc[1] # "DecodeError" /\ decodedAll = <<>>)

====
